---- MODULE Spec2Model ----
(***************************************************************************)
(* The Driver statistics model of app/models/driver.py as a state machine: *)
(* one Driver object, its public methods as actions.                       *)
(*                                                                         *)
(* Numbers.  Python ints are TLA+ integers.  A Python float that the code  *)
(* obtains by a division is kept exactly, as a reduced fraction <<p, q>>   *)
(* with q > 0.  consistency, which involves a square root, is kept exactly *)
(* as a record [base, sgn, rad] denoting  base - sgn * sqrt(rad)  with rad *)
(* a reduced fraction.  A raised exception is recorded in `raised`; the    *)
(* object stays usable afterwards (the caller may catch and go on), with   *)
(* the assignments made before the raise kept.                             *)
(***************************************************************************)
EXTENDS Integers, Sequences, FiniteSets

\* ---------------------------------------------------------------- bounds
\* The mutating calls (set_race_result, add_points, add_pole_position) explored
\* on one Driver; the reading calls are not bounded.
MaxCalls == 2

\* An optional int (position, season): None is the empty tuple, the int n is
\* the one-element tuple <<n>>, so that the two compare.
None == <<>>
Num(n) == <<n>>
Val(v) == v[1]

\* The positions and points callers report.  Positions are not validated:
\* None (a DNF report), zero and negative integers are inputs.
Positions == {None} \cup {Num(n) : n \in {-1, 0, 1, 2, 5}}
Points == {0, 18, 25}

VARIABLES
    ident,               \* id, name, number, team, nationality, price, season
    season_points, wins, podiums, pole_positions,
    reliability, consistency, average_position,
    last_race_position, last_race_points,
    stats,               \* races_completed, races_dnf, total_races and the two lists
    last,                \* the method called last ("init" after construction)
    raised,              \* whether that call raised an exception
    snapshot,            \* the mapping the last completed to_dict returned
    n_set_race_result,   \* history: calls of set_race_result so far
    n_add_points         \* history: direct calls of add_points so far

\* The mutating calls made so far
Calls == n_set_race_result + n_add_points + pole_positions

vars == <<ident, season_points, wins, podiums, pole_positions, reliability,
          consistency, average_position, last_race_position, last_race_points,
          stats, last, raised, snapshot, n_set_race_result, n_add_points>>

\* ------------------------------------------------------- exact arithmetic
Abs(x) == IF x < 0 THEN -x ELSE x

RECURSIVE GCD(_, _)
GCD(a, b) == IF b = 0 THEN a ELSE GCD(b, a % b)

\* The fraction p/q (q # 0), reduced, denominator positive.
Rat(p, q) ==
    LET g == GCD(Abs(p), Abs(q))
        s == IF q < 0 THEN -1 ELSE 1
    IN  <<(s * p) \div g, (s * q) \div g>>

RatOfInt(n) == <<n, 1>>
RatAdd(a, b) == Rat(a[1] * b[2] + b[1] * a[2], a[2] * b[2])
RatSub(a, b) == Rat(a[1] * b[2] - b[1] * a[2], a[2] * b[2])
RatMul(a, b) == Rat(a[1] * b[1], a[2] * b[2])
RatDiv(a, b) == Rat(a[1] * b[2], a[2] * b[1])
RatLeq(a, b) == a[1] * b[2] <= b[1] * a[2]
RatLess(a, b) == a[1] * b[2] < b[1] * a[2]
RatZero == <<0, 1>>
RatOne == <<1, 1>>

\* sum(xs) of a list of ints (boxed)
RECURSIVE SumSeq(_)
SumSeq(xs) == IF xs = <<>> THEN 0 ELSE Val(Head(xs)) + SumSeq(Tail(xs))

\* A list holds None: sum() over it raises TypeError (int + NoneType).
HasNone(xs) == \E i \in 1..Len(xs) : xs[i] = None


\* ------------------------------------------------ the methods' computations

\* CountFinish with the `else` lost: a DNF is counted as completed as well
CountFinishNoElse(st, dnf) ==
    IF dnf THEN [st EXCEPT !.races_dnf = @ + 1, !.races_completed = @ + 1]
    ELSE [st EXCEPT !.races_completed = @ + 1]

\* set_race_result, lines 76-79: the DNF / completed counters
CountFinish(st, dnf) ==
    IF dnf THEN [st EXCEPT !.races_dnf = @ + 1]
    ELSE [st EXCEPT !.races_completed = @ + 1]

\* set_race_result, line 82: `if position and position <= 3` (None and 0 are falsy)
IsPodium(position) ==
    /\ position # None
    /\ Val(position) # 0
    /\ Val(position) <= 3

\* IsWin with `>= 1` for `== 1`
IsWinAtLeastOne(position) == position # None /\ Val(position) >= 1

\* set_race_result, line 85: `if position == 1`
IsWin(position) == position = Num(1)

\* AppendPoints guarded by `if points:`, which skips a race without points
AppendPointsIfAny(history, points) ==
    IF points = 0 THEN history ELSE Append(history, points)

\* add_points, line 59: the list after append(points)
AppendPoints(history, points) == Append(history, points)

\* ReliabilityOf with the wrong counter: the share of races not finished
ReliabilityOfDnf(st, prior) ==
    IF st.total_races > 0 THEN Rat(st.races_dnf, st.total_races)
    ELSE prior

\* calculate_reliability, lines 103-107: the value of self.reliability after
\* the call, given the value before it
ReliabilityOf(st, prior) ==
    IF st.total_races > 0 THEN Rat(st.races_completed, st.total_races)
    ELSE prior

\* The float 0.0 and 1.0 as values of consistency
SurdZero == [base |-> 0, sgn |-> 0, rad |-> RatZero]
\* 1.0 - cv / 10.0 for cv = sign(mean) * sqrt(q), q = variance / mean^2
OneMinusTenth(meanSign, q) ==
    IF q = RatZero THEN [base |-> 1, sgn |-> 0, rad |-> RatZero]
    ELSE [base |-> 1, sgn |-> meanSign, rad |-> RatDiv(q, RatOfInt(100))]
\* x > 0.0 for x = base - sgn * sqrt(rad)
SurdPositive(x) ==
    /\ x.base = 1
    /\ (x.sgn = 1 => RatLess(x.rad, RatOne))
\* x <= 1.0
SurdLeqOne(x) == x.base = 0 \/ x.sgn >= 0
\* x >= 0.0
SurdNonNeg(x) == x.base = 0 \/ x.sgn <= 0 \/ RatLeq(x.rad, RatOne)
\* max(0.0, x): Python returns 0.0 unless x > 0.0
Max0(x) == IF SurdPositive(x) THEN x ELSE SurdZero

\* sum((x - mean) ** 2 for x in positions)
RECURSIVE SumSqDev(_, _)
SumSqDev(xs, mean) ==
    IF xs = <<>> THEN RatZero
    ELSE LET d == RatSub(RatOfInt(Val(Head(xs))), mean)
         IN  RatAdd(RatMul(d, d), SumSqDev(Tail(xs), mean))

\* get_average_position, lines 153-155: sum(history) / len(history)
MeanOf(history) == Rat(SumSeq(history), Len(history))

\* calculate_consistency, lines 117-119: the early return with 0.0
TooFewPositions(history) == history = <<>> \/ Len(history) < 2

\* calculate_consistency, lines 121-138, for a list of at least two ints
ConsistencyOf(positions) ==
    LET mean_position == Rat(SumSeq(positions), Len(positions))
        variance == RatDiv(SumSqDev(positions, mean_position),
                           RatOfInt(Len(positions)))
    IN  IF mean_position = RatZero THEN SurdZero
        ELSE Max0(OneMinusTenth(IF mean_position[1] < 0 THEN -1 ELSE 1,
                                RatDiv(variance,
                                       RatMul(mean_position, mean_position))))

\* ------------------------------------------------------------- round()
\* round(x, digits) of the float x = p/q: the nearest multiple of 10^-digits,
\* an exact tie going to the even neighbour.
Pow10(d) == IF d = 2 THEN 100 ELSE 1000

RoundHalfEven(n, q) ==
    LET fl == n \div q
        rem == n % q
    IN  IF 2 * rem < q THEN fl
        ELSE IF 2 * rem > q THEN fl + 1
        ELSE IF fl % 2 = 0 THEN fl ELSE fl + 1

RoundRat(x, digits) == Rat(RoundHalfEven(x[1] * Pow10(digits), x[2]), Pow10(digits))

\* floor(sqrt(n)) for 0 <= n < 2^31, by bisection on lo..hi
RECURSIVE ISqrtIn(_, _, _)
ISqrtIn(n, lo, hi) ==
    IF lo >= hi THEN lo
    ELSE LET mid == (lo + hi + 1) \div 2
         IN  IF mid * mid <= n THEN ISqrtIn(n, mid, hi) ELSE ISqrtIn(n, lo, mid - 1)
ISqrt(n) == ISqrtIn(n, 0, 46340)

\* round(x, 3) of x = base - sgn * sqrt(rad), as a fraction of thousandths.
\* With t = 1000 * sqrt(p/q), k is the nearest integer to t (a tie upwards):
\* the largest k with (2k - 1)^2 <= 4 * 10^6 * p / q; an exact tie t = k - 1/2 is
\* resolved on the result, to the even neighbour.
RoundSurd3(x) ==
    LET p == x.rad[1]
        q == x.rad[2]
        f == (4000000 * p) \div q
        k == (ISqrt(f) + 1) \div 2
        tie == k > 0 /\ (4000000 * p) % q = 0 /\ (2 * k - 1) * (2 * k - 1) = f
        up == 1000 * x.base - x.sgn * k
        down == 1000 * x.base - x.sgn * (k - 1)
    IN  Rat(IF tie THEN (IF up % 2 = 0 THEN up ELSE down) ELSE up, 1000)

\* ---------------------------------------------------------- the mapping
\* to_dict puts the two history lists themselves into the mapping (lines
\* 186-187), not copies: the mapping holds references to the Driver's lists.
PointsHistoryRef == "ref:stats.points_history"
PositionHistoryRef == "ref:stats.position_history"

\* to_dict, lines 165-189: the mapping built once get_average_position has
\* returned avg
ToDictMap(avg) ==
    [id |-> ident.id, name |-> ident.name, number |-> ident.number,
     team |-> ident.team, nationality |-> ident.nationality,
     price |-> ident.price, season |-> ident.season,
     season_points |-> season_points,
     wins |-> wins,
     podiums |-> podiums,
     pole_positions |-> pole_positions,
     reliability |-> RoundRat(reliability, 3),
     consistency |-> RoundSurd3(consistency),
     average_position |-> RoundRat(avg, 2),
     last_race_position |-> last_race_position,
     last_race_points |-> last_race_points,
     stats |-> [races_completed |-> stats.races_completed,
                races_dnf |-> stats.races_dnf,
                total_races |-> stats.total_races,
                points_history |-> PointsHistoryRef,
                position_history |-> PositionHistoryRef]]

\* What a holder of the mapping m reads from it when the Driver's stats are st
View(m, st) ==
    [m EXCEPT !.stats.points_history = st.points_history,
              !.stats.position_history = st.position_history]

\* ------------------------------------------------------------------ Init
\* __init__, lines 19-49.  The identity fields are the constructor's arguments
\* and no method assigns them again: one Driver is followed, built without a
\* season (the parameter's default).
Init ==
    /\ ident = [id |-> 1, name |-> "Max Verstappen", number |-> 1,
                team |-> "Red Bull", nationality |-> "Dutch",
                price |-> 30, season |-> None]
    /\ season_points = 0
    /\ wins = 0
    /\ podiums = 0
    /\ pole_positions = 0
    /\ reliability = RatZero
    /\ consistency = SurdZero
    /\ average_position = RatZero
    /\ last_race_position = None
    /\ last_race_points = 0
    /\ stats = [races_completed |-> 0, races_dnf |-> 0, points_history |-> <<>>,
                position_history |-> <<>>, total_races |-> 0]
    /\ last = "init"
    /\ raised = FALSE
    /\ snapshot = None
    /\ n_set_race_result = 0
    /\ n_add_points = 0

\* --------------------------------------------------------------- actions
\* add_points(points), lines 58-59, called directly
add_points(points) ==
    /\ Calls < MaxCalls
    /\ season_points' = season_points + points
    /\ stats' = [stats EXCEPT !.points_history = AppendPoints(@, points)]
    /\ last' = "add_points"
    /\ raised' = FALSE
    /\ n_add_points' = n_add_points + 1
    /\ UNCHANGED <<ident, wins, podiums, pole_positions, reliability, consistency,
                   average_position, last_race_position, last_race_points,
                   snapshot, n_set_race_result>>

\* set_race_result(position, points, dnf), lines 70-90.  calculate_consistency
\* comes last: when sum() raises on a None in position_history, everything
\* before it has been assigned and consistency keeps its value.
set_race_result(position, points, dnf) ==
    /\ Calls < MaxCalls
    /\ last_race_position' = position
    /\ last_race_points' = points
    /\ LET st1 == [stats EXCEPT !.position_history = Append(@, position),
                                !.total_races = @ + 1]
           st2 == CountFinish(st1, dnf)
           st3 == [st2 EXCEPT !.points_history = AppendPoints(@, points)]
           history == st3.position_history
       IN  /\ stats' = st3
           /\ reliability' = ReliabilityOf(st3, reliability)
           /\ IF TooFewPositions(history)
               THEN consistency' = SurdZero /\ raised' = FALSE
               ELSE IF HasNone(history)
               THEN consistency' = consistency /\ raised' = TRUE
               ELSE consistency' = ConsistencyOf(history) /\ raised' = FALSE
    /\ podiums' = IF IsPodium(position) THEN podiums + 1 ELSE podiums
    /\ wins' = IF IsWin(position) THEN wins + 1 ELSE wins
    /\ season_points' = season_points + points
    /\ last' = "set_race_result"
    /\ n_set_race_result' = n_set_race_result + 1
    /\ UNCHANGED <<ident, pole_positions, average_position, snapshot, n_add_points>>

\* add_pole_position(), line 94
add_pole_position ==
    /\ Calls < MaxCalls
    /\ pole_positions' = pole_positions + 1
    /\ last' = "add_pole_position"
    /\ raised' = FALSE
    /\ UNCHANGED <<ident, season_points, wins, podiums, reliability, consistency,
                   average_position, last_race_position, last_race_points, stats,
                   snapshot, n_set_race_result, n_add_points>>

\* get_average_position(), lines 149-156: sum() raises on a None before the
\* field is assigned
get_average_position ==
    /\ IF stats.position_history = <<>>
       THEN average_position' = RatZero /\ raised' = FALSE
       ELSE IF HasNone(stats.position_history)
       THEN average_position' = average_position /\ raised' = TRUE
       ELSE average_position' = MeanOf(stats.position_history) /\ raised' = FALSE
    /\ last' = "get_average_position"
    /\ UNCHANGED <<ident, season_points, wins, podiums, pole_positions, reliability,
                   consistency, last_race_position, last_race_points, stats,
                   snapshot, n_set_race_result, n_add_points>>

\* to_dict reading the cached self.average_position for the mapping, and
\* refreshing the cache only afterwards
to_dict_stale ==
    /\ IF stats.position_history = <<>>
       THEN /\ average_position' = RatZero
            /\ raised' = FALSE
            /\ snapshot' = <<ToDictMap(average_position)>>
       ELSE IF HasNone(stats.position_history)
       THEN /\ average_position' = average_position
            /\ raised' = TRUE
            /\ snapshot' = snapshot
       ELSE /\ average_position' = MeanOf(stats.position_history)
            /\ raised' = FALSE
            /\ snapshot' = <<ToDictMap(average_position)>>
    /\ last' = "to_dict"
    /\ UNCHANGED <<ident, season_points, wins, podiums, pole_positions, reliability,
                   consistency, last_race_position, last_race_points, stats,
                   n_set_race_result, n_add_points>>

\* to_dict(), lines 165-189: the call of get_average_position inside the
\* mapping literal assigns average_position; when it raises, no mapping is
\* returned and the caller keeps the one it had.
to_dict ==
    /\ IF stats.position_history = <<>>
       THEN /\ average_position' = RatZero
            /\ raised' = FALSE
            /\ snapshot' = <<ToDictMap(RatZero)>>
       ELSE IF HasNone(stats.position_history)
       THEN /\ average_position' = average_position
            /\ raised' = TRUE
            /\ snapshot' = snapshot
       ELSE /\ average_position' = MeanOf(stats.position_history)
            /\ raised' = FALSE
            /\ snapshot' = <<ToDictMap(MeanOf(stats.position_history))>>
    /\ last' = "to_dict"
    /\ UNCHANGED <<ident, season_points, wins, podiums, pole_positions, reliability,
                   consistency, last_race_position, last_race_points, stats,
                   n_set_race_result, n_add_points>>

Next ==
    \/ \E points \in Points : add_points(points)
    \/ \E position \in Positions, points \in Points, dnf \in BOOLEAN :
          set_race_result(position, points, dnf)
    \/ add_pole_position
    \/ get_average_position
    \/ to_dict

Spec == Init /\ [][Next]_vars

\* ----------------------------------------------------------------- claims
IsPrefix(a, b) == Len(a) <= Len(b) /\ SubSeq(b, 1, Len(a)) = a
CountOf(history, wanted) == Cardinality({i \in 1..Len(history) : history[i] \in wanted})

\* C1: no call of set_race_result, add_points, add_pole_position or to_dict
\* raises an exception, DNF reports with position None included.
C1_NoCallRaises == raised = FALSE

\* C2: consistency lies in [0.0, 1.0] in every reachable state (zero and
\* negative positions being allowed inputs), and is 0.0 while position_history
\* holds fewer than two entries.
C2_ConsistencyInUnitInterval ==
    /\ SurdNonNeg(consistency)
    /\ SurdLeqOne(consistency)
    /\ (Len(stats.position_history) < 2 => consistency = SurdZero)

\* C3: podiums counts exactly the reports with position 1, 2 or 3 and wins
\* exactly those with position 1: a report with position 0 or a negative
\* position increments neither.
C3_PodiumOnlyTopThree ==
    /\ podiums = CountOf(stats.position_history, {Num(1), Num(2), Num(3)})
    /\ wins = CountOf(stats.position_history, {Num(1)})

\* C4: total_races = races_completed + races_dnf in every reachable state.
C4_TotalRaces == stats.total_races = stats.races_completed + stats.races_dnf
C4_Witness ==
    /\ stats.total_races = 2
    /\ stats.races_completed = 1
    /\ stats.races_dnf = 1

\* C5: reliability lies in [0.0, 1.0]; it is races_completed / total_races of
\* the counters once a race has been reported (so 1.0 when no race was a DNF)
\* and stays at its initial 0.0 while total_races = 0.
C5_Reliability ==
    /\ RatLeq(RatZero, reliability)
    /\ RatLeq(reliability, RatOne)
    /\ (stats.total_races = 0 => reliability = RatZero)
    /\ (stats.total_races > 0 =>
           reliability[1] * stats.total_races = stats.races_completed * reliability[2])
    /\ (stats.total_races > 0 /\ stats.races_dnf = 0 => reliability = RatOne)
C5_Witness ==
    /\ last = "set_race_result"
    /\ stats.total_races = 2
    /\ stats.races_dnf = 1
    /\ reliability = <<1, 2>>

\* C6: wins <= podiums <= total_races in every state reachable by
\* set_race_result, add_points and add_pole_position calls.
C6_WinsPodiumsRaces == wins <= podiums /\ podiums <= stats.total_races
C6_Witness ==
    /\ wins = 1
    /\ podiums = 2
    /\ stats.total_races = 2

C8_SnapshotImmutable ==
    [][(snapshot # None /\ last' \in {"set_race_result", "add_points"}) =>
         View(snapshot[1], stats') = View(snapshot[1], stats)]_vars

\* C9: len(position_history) is the number of set_race_result calls,
\* len(points_history) the number of set_race_result calls plus the number of
\* direct add_points calls, and no call changes or removes an earlier entry
\* of either list.
C9_Ledgers ==
    /\ [](/\ Len(stats.position_history) = n_set_race_result
          /\ Len(stats.points_history) = n_set_race_result + n_add_points)
    /\ [][/\ IsPrefix(stats.position_history, stats.position_history')
          /\ IsPrefix(stats.points_history, stats.points_history')]_vars
C9_Witness ==
    /\ n_set_race_result = 1
    /\ n_add_points = 1
    /\ stats.points_history = <<0, 25>>
    /\ stats.position_history = <<None>>

\* C10: get_average_position returns 0.0 when position_history is empty and
\* otherwise the arithmetic mean of the current position_history; after
\* set_race_result(1, 25) on a new Driver it returns 1.0.
C10_AveragePosition ==
    last = "get_average_position" =>
        /\ ~raised
        /\ (stats.position_history = <<>> => average_position = RatZero)
        /\ (stats.position_history # <<>> =>
               average_position[1] * Len(stats.position_history)
                   = SumSeq(stats.position_history) * average_position[2])
        /\ (stats.position_history = <<Num(1)>> => average_position = RatOne)

====
